---------------------------- MODULE Spec2Model ----------------------------
(***************************************************************************)
(* A model of the two GAN training scripts of gliboc/vega:                 *)
(*   src/dcgan/dcgan.py       class DCGAN                                   *)
(*   src/cyclegan/cyclegan.py class CYCLEGAN                                *)
(*                                                                         *)
(* Three specifications share the variables below.                         *)
(*   SpecNet    the construction of the networks (build_discriminator and  *)
(*              build_generator, layer by layer, with Keras' shape rules)  *)
(*   Spec       train(): load_images, the training loop, save_images       *)
(*   SpecPixel  the pixel maps of load_images and save_images              *)
(***************************************************************************)
EXTENDS Integers, Sequences, FiniteSets, TLC

VARIABLES
    script,      \* "dcgan" or "cyclegan": which file is being run
    cfg,         \* the CONFIG mapping handed to the constructor
    phase,       \* construction: the build_* call in progress, "built", "ValueError"
    layer_i,     \* construction: number of layers added to the Sequential model
    out_shape,   \* construction: output shape of the model so far (batch axis left out)
    out_range,   \* construction: value range of the model's output so far
    nets,        \* the networks built so far: name -> [shape, range]
    files,       \* the images the glob pattern matches, in glob order
    args,        \* train(epochs, half_batch, save_interval)
    pc,          \* position in train()
    epoch,       \* the loop variable of train()
    x_train,     \* the array load_images returned
    real_imgs,   \* the batch sampled from x_train
    fake_imgs,   \* the batch the generator predicted
    z,           \* the batch of latent vectors drawn last
    compiled,    \* per compiled model, the networks its optimizer updates
    weights,     \* per network, the number of optimizer steps applied to its weights
    log,         \* the calls train() has made so far, in order
    printed,     \* the lines printed by load_images and by train()
    written,     \* the files written by save_images, in order
    pix          \* SpecPixel: one pixel on its way through load_images / save_images

vars == <<script, cfg, phase, layer_i, out_shape, out_range, nets, files, args, pc,
          epoch, x_train, real_imgs, fake_imgs, z, compiled, weights, log, printed,
          written, pix>>

netVars   == <<phase, layer_i, out_shape, out_range, nets>>
trainVars == <<files, args, pc, epoch, x_train, real_imgs, fake_imgs, z, compiled,
               weights, log, printed, written>>

(***************************************************************************)
(* Bounds of the model.                                                    *)
(***************************************************************************)
MaxSize == 80
MaxFiles == 3
MaxEpochs == 3
MaxHalfBatch == 2
MaxInterval == 2
MaxUlps == 3

(***************************************************************************)
(* CONFIG                                                                  *)
(***************************************************************************)
Scripts == {"dcgan", "cyclegan"}

DCGAN_CONFIG ==
    [size |-> 64, ngf |-> 64, nz |-> 200, nc |-> 3, ndf |-> 64,
     src_path |-> "../input/hands_64", otp_path |-> "../output"]

CYCLEGAN_CONFIG ==
    [size |-> 32, ngf |-> 16, nx |-> 100, ny |-> 100, nc |-> 3, ndf |-> 64]

CONFIG(s) == IF s = "dcgan" THEN DCGAN_CONFIG ELSE CYCLEGAN_CONFIG

\* self.img_shape = (cfg['size'], cfg['size'], cfg['nc'])
img_shape(c) == <<c.size, c.size, c.nc>>

\* Channel counts of the image modes PIL produces (L, RGB, RGBA) .
NcValues == {1, 3, 4}

(***************************************************************************)
(* Keras layers: the output shape and the output range of each layer.      *)
(***************************************************************************)
Conv2D(f, k, s, pad, act) ==
    [op |-> "Conv2D", filters |-> f, k |-> k, s |-> s, pad |-> pad, act |-> act]
Conv2DTranspose(f, k, s, pad, act) ==
    [op |-> "Conv2DTranspose", filters |-> f, k |-> k, s |-> s, pad |-> pad, act |-> act]
MaxPooling2D(p) ==
    [op |-> "MaxPooling2D", filters |-> 0, k |-> p, s |-> p, pad |-> "valid", act |-> "keep"]
UpSampling2D(p) ==
    [op |-> "UpSampling2D", filters |-> 0, k |-> p, s |-> p, pad |-> "valid", act |-> "keep"]
Reshape(n) ==
    [op |-> "Reshape", filters |-> n, k |-> 1, s |-> 1, pad |-> "valid", act |-> "keep"]
Flatten ==
    [op |-> "Flatten", filters |-> 0, k |-> 1, s |-> 1, pad |-> "valid", act |-> "keep"]
Activation(a) ==
    [op |-> "Activation", filters |-> 0, k |-> 1, s |-> 1, pad |-> "valid", act |-> a]
LeakyReLU ==
    [op |-> "LeakyReLU", filters |-> 0, k |-> 1, s |-> 1, pad |-> "valid", act |-> "linear"]
BatchNormalization ==
    [op |-> "BatchNormalization", filters |-> 0, k |-> 1, s |-> 1, pad |-> "valid",
     act |-> "linear"]

\* keras.utils.conv_utils.conv_output_length
conv_output_length(n, k, pad, s) ==
    LET o == IF pad = "same" THEN n ELSE n - k + 1
    IN  (o + s - 1) \div s

\* keras.utils.conv_utils.deconv_length
deconv_length(n, k, pad, s) ==
    IF pad = "same" THEN n * s
    ELSE n * s + (IF k > s THEN k - s ELSE 0)

\* The output shape of layer l on an input of shape sh.
LayerShape(l, sh) ==
    CASE l.op = "Conv2D" ->
           <<conv_output_length(sh[1], l.k, l.pad, l.s),
             conv_output_length(sh[2], l.k, l.pad, l.s), l.filters>>
      [] l.op = "Conv2DTranspose" ->
           <<deconv_length(sh[1], l.k, l.pad, l.s),
             deconv_length(sh[2], l.k, l.pad, l.s), l.filters>>
      [] l.op = "MaxPooling2D" ->
           <<conv_output_length(sh[1], l.k, "valid", l.s),
             conv_output_length(sh[2], l.k, "valid", l.s), sh[3]>>
      [] l.op = "UpSampling2D" -> <<l.k * sh[1], l.k * sh[2], sh[3]>>
      [] l.op = "Reshape" -> <<1, 1, l.filters>>
      [] l.op = "Flatten" -> <<sh[1] * sh[2] * sh[3]>>
      [] OTHER -> sh

\* The range of the values layer l puts out, given the range r of its input.
LayerRange(l, r) ==
    CASE l.act = "sigmoid" -> "[0,1]"
      [] l.act = "tanh" -> "[-1,1]"
      [] l.act = "relu" -> "[0,inf)"
      [] l.act = "linear" -> "(-inf,inf)"
      [] OTHER -> r

\* The backend refuses a layer whose output would have an empty or negative axis.
ValidShape(sh) == \A i \in 1..Len(sh) : sh[i] >= 1

(***************************************************************************)
(* build_generator / build_discriminator: the layers, in the order added.  *)
(***************************************************************************)
DCGAN_build_generator(c) ==
    [input |-> <<c.nz>>,
     layers |-> <<
        Reshape(c.nz),
        Conv2DTranspose(c.ngf * 8, 4, 1, "valid", "linear"),
        Activation("relu"),
        BatchNormalization,
        Conv2DTranspose(c.ngf * 4, 4, 2, "same", "linear"),
        Activation("relu"),
        BatchNormalization,
        BatchNormalization,
        Conv2DTranspose(c.ngf * 2, 4, 2, "same", "linear"),
        Activation("relu"),
        BatchNormalization,
        BatchNormalization,
        MaxPooling2D(4),
        UpSampling2D(4),
        Conv2DTranspose(c.ngf, 4, 2, "same", "linear"),
        Activation("relu"),
        BatchNormalization,
        BatchNormalization,
        Conv2DTranspose(img_shape(c)[3], 4, 2, "same", "tanh") >>]

DCGAN_build_discriminator(c) ==
    [input |-> img_shape(c),
     layers |-> <<
        Conv2D(c.ndf, 4, 2, "same", "linear"),
        LeakyReLU,
        BatchNormalization,
        Conv2D(c.ndf * 2, 4, 2, "same", "linear"),
        LeakyReLU,
        BatchNormalization,
        Conv2D(c.ndf * 4, 4, 2, "same", "linear"),
        LeakyReLU,
        BatchNormalization,
        MaxPooling2D(2),
        UpSampling2D(2),
        Conv2D(c.ndf * 8, 4, 2, "same", "linear"),
        LeakyReLU,
        BatchNormalization,
        Conv2D(1, 4, 1, "valid", "sigmoid"),
        Flatten >>]

CYCLEGAN_build_generator(c) ==
    [input |-> img_shape(c),
     layers |-> <<
        Conv2D(c.ngf, 4, 1, "valid", "linear"),
        Activation("relu"),
        BatchNormalization,
        Conv2D(c.ngf * 4, 4, 1, "valid", "linear"),
        Activation("relu"),
        BatchNormalization,
        Conv2DTranspose(c.ngf, 4, 1, "valid", "linear"),
        Activation("relu"),
        BatchNormalization,
        Conv2DTranspose(c.ngf, 3, 1, "valid", "linear"),
        Conv2DTranspose(img_shape(c)[3], 2, 1, "valid", "tanh") >>]

CYCLEGAN_build_discriminator(c) ==
    [input |-> img_shape(c),
     layers |-> <<
        Conv2D(c.ndf, 4, 2, "same", "linear"),
        LeakyReLU,
        Conv2D(c.ndf, 4, 2, "same", "linear"),
        LeakyReLU,
        BatchNormalization,
        Conv2D(c.ndf * 8, 4, 2, "same", "linear"),
        LeakyReLU,
        BatchNormalization,
        Conv2D(1, 4, 1, "valid", "sigmoid"),
        Flatten >>]

\* The build_* calls of __init__, in the order made, each with the attribute
\* the result is stored in.
BuildOrder(s) ==
    IF s = "dcgan" THEN <<"discr", "gen">>
    ELSE <<"discr1", "discr2", "gen1", "gen2">>

IsGenerator(name) == name \in {"gen", "gen1", "gen2"}
IsDiscriminator(name) == name \in {"discr", "discr1", "discr2"}

\* The model the build_* call behind attribute `name` assembles.
Builder(s, name, c) ==
    IF s = "dcgan"
    THEN IF IsGenerator(name) THEN DCGAN_build_generator(c)
         ELSE DCGAN_build_discriminator(c)
    ELSE IF IsGenerator(name) THEN CYCLEGAN_build_generator(c)
         ELSE CYCLEGAN_build_discriminator(c)

(***************************************************************************)
(* SpecNet: the build_* calls of __init__, one model.add at a time.        *)
(***************************************************************************)
PhaseIndex(s, name) == CHOOSE i \in 1..Len(BuildOrder(s)) : BuildOrder(s)[i] = name

Building == phase \notin {"built", "ValueError"}

\* model.add(layer): the layer's output shape is inferred at once; an
\* impossible shape raises ValueError out of the constructor.
ModelAdd ==
    /\ Building
    /\ LET m  == Builder(script, phase, cfg)
           l  == m.layers[layer_i + 1]
           sh == LayerShape(l, out_shape)
       IN  /\ layer_i < Len(m.layers)
           /\ IF ValidShape(sh)
              THEN /\ layer_i' = layer_i + 1
                   /\ out_shape' = sh
                   /\ out_range' = LayerRange(l, out_range)
                   /\ phase' = phase
              ELSE /\ phase' = "ValueError"
                   /\ UNCHANGED <<layer_i, out_shape, out_range>>
    /\ UNCHANGED <<script, cfg, nets, trainVars, pix>>

\* return model: the network is stored and the next build_* call starts.
ReturnModel ==
    /\ Building
    /\ layer_i = Len(Builder(script, phase, cfg).layers)
    /\ nets' = [nets EXCEPT ![phase] = [shape |-> out_shape, range |-> out_range]]
    /\ LET i == PhaseIndex(script, phase)
       IN  IF i < Len(BuildOrder(script))
           THEN /\ phase' = BuildOrder(script)[i + 1]
                /\ out_shape' = Builder(script, BuildOrder(script)[i + 1], cfg).input
           ELSE /\ phase' = "built"
                /\ out_shape' = out_shape
    /\ layer_i' = 0
    /\ out_range' = "(-inf,inf)"
    /\ UNCHANGED <<script, cfg, trainVars, pix>>

NoNet == [shape |-> <<>>, range |-> "none"]

NetNames == {"discr", "gen", "discr1", "discr2", "gen1", "gen2"}

\* The models __init__ compiles.
CompiledNames == {"discr", "discr1", "discr2", "comb"}

IdleTrain ==
    /\ files = <<>>
    /\ args = [epochs |-> 0, half_batch |-> 0, save_interval |-> 0]
    /\ pc = "idle"
    /\ epoch = 0
    /\ x_train = <<>>
    /\ real_imgs = <<>>
    /\ fake_imgs = <<>>
    /\ z = <<>>
    /\ compiled = [m \in CompiledNames |-> {}]
    /\ weights = [n \in NetNames |-> 0]
    /\ log = <<>>
    /\ printed = <<>>
    /\ written = <<>>

IdlePix == pix = [stage |-> "idle", p |-> 0, x |-> <<0, 0>>, g |-> <<0, 0>>, out |-> 0]

InitNet ==
    /\ script \in Scripts
    /\ \E s \in 1..MaxSize, c \in NcValues :
          cfg = [CONFIG(script) EXCEPT !.size = s, !.nc = c]
    /\ phase = BuildOrder(script)[1]
    /\ layer_i = 0
    /\ out_shape = Builder(script, BuildOrder(script)[1], cfg).input
    /\ out_range = "(-inf,inf)"
    /\ nets = [n \in NetNames |-> NoNet]
    /\ IdleTrain
    /\ IdlePix

NextNet == ModelAdd \/ ReturnModel

SpecNet == InitNet /\ [][NextNet]_vars


(***************************************************************************)
(* The state __init__ leaves behind.                                       *)
(***************************************************************************)
\* The network a Sequential model is once all its layers are added.
RECURSIVE Forward(_, _, _, _)
Forward(layers, i, sh, rg) ==
    IF i > Len(layers) THEN [shape |-> sh, range |-> rg]
    ELSE Forward(layers, i + 1, LayerShape(layers[i], sh), LayerRange(layers[i], rg))

InBuildOrder(s, n) == \E i \in 1..Len(BuildOrder(s)) : BuildOrder(s)[i] = n

Built(s, c) ==
    [n \in NetNames |->
        IF InBuildOrder(s, n)
        THEN Forward(Builder(s, n, c).layers, 1, Builder(s, n, c).input, "(-inf,inf)")
        ELSE NoNet]

\* Keras: model.compile collects the weights of the member networks that are
\* trainable at that moment; train_on_batch on the compiled model updates
\* those and no others, whatever `trainable` is set to afterwards.
Compile(k, model, members) ==
    [k EXCEPT !.compiled[model] = {n \in members : k.trainable[n]}]

SetTrainable(k, n, v) == [k EXCEPT !.trainable[n] = v]

Keras0 ==
    [trainable |-> [n \in NetNames |-> TRUE],
     compiled  |-> [m \in CompiledNames |-> {}]]

\* A plausible slip: the discriminator is not frozen before comb is compiled.
DCGAN_init_NoFreeze ==
    LET k1 == Compile(Keras0, "discr", {"discr"})
        k3 == Compile(k1, "comb", {"gen", "discr"})
    IN  k3

\* DCGAN.__init__: discr.compile, discr.trainable = False, comb.compile
DCGAN_init ==
    LET k1 == Compile(Keras0, "discr", {"discr"})
        k2 == SetTrainable(k1, "discr", FALSE)
        k3 == Compile(k2, "comb", {"gen", "discr"})
    IN  k3

\* CYCLEGAN.__init__: comb = Model(x, gen2(gen1(x))) is the one composite compiled.
CYCLEGAN_init ==
    LET k1 == Compile(Keras0, "discr1", {"discr1"})
        k2 == SetTrainable(k1, "discr1", FALSE)
        k3 == Compile(k2, "discr2", {"discr2"})
        k4 == SetTrainable(k3, "discr2", FALSE)
        k5 == Compile(k4, "comb", {"gen1", "gen2"})
    IN  k5

KerasInit(s) == IF s = "dcgan" THEN DCGAN_init ELSE CYCLEGAN_init

\* The attributes __init__ assigns on self.
Attributes(s) ==
    IF s = "dcgan"
    THEN {"img_shape", "nz", "ngf", "ndf", "alpha", "discr", "gen", "src_path",
          "otp_path", "comb"}
    ELSE {"img_shape", "nx", "ny", "ngf", "ndf", "alpha", "nc", "discr1", "discr2",
          "gen1", "gen2", "first_gen", "second_gen", "comb1", "comb2", "comb"}

(***************************************************************************)
(* load_images                                                             *)
(***************************************************************************)
Sample(kind, src, shape, range) ==
    [kind |-> kind, src |-> src, shape |-> shape, range |-> range]

\* What is appended for file number i: DCGAN scales the pixels to [-1, 1]
\* (line 87), CYCLEGAN keeps the 8-bit values (line 107).
Loaded(s, i, f) ==
    Sample("real", i, f.shape, IF s = "dcgan" THEN "[-1,1]" ELSE "[0,255]")

BadShape(i, f) == [msg |-> "bad shape", file |-> i, shape |-> f.shape, epoch |-> 0]

\* A plausible slip: the shape test is dropped and every image is appended.
LoadStep_NoTest(s, acc, i, f, c) ==
    [xs |-> Append(acc.xs, Loaded(s, i, f)), out |-> acc.out]

\* The body of the for loop of load_images, on file number i.
LoadStep(s, acc, i, f, c) ==
    IF f.shape = img_shape(c)
    THEN [xs |-> Append(acc.xs, Loaded(s, i, f)), out |-> acc.out]
    ELSE [xs |-> acc.xs, out |-> Append(acc.out, BadShape(i, f))]

RECURSIVE load_images(_, _, _)
load_images(s, fs, c) ==
    IF fs = <<>> THEN [xs |-> <<>>, out |-> <<>>]
    ELSE LoadStep(s, load_images(s, SubSeq(fs, 1, Len(fs) - 1), c), Len(fs),
                  fs[Len(fs)], c)

(***************************************************************************)
(* save_images                                                             *)
(***************************************************************************)
RECURSIVE Digits(_)
Digits(n) == IF n < 10 THEN <<n>> ELSE Append(Digits(n \div 10), n % 10)

RECURSIVE ZeroPad(_, _)
ZeroPad(ds, w) == IF Len(ds) >= w THEN ds ELSE ZeroPad(<<0>> \o ds, w)

\* '%04i' % n
Fmt04(n) == ZeroPad(Digits(n), 4)

\* A plausible slip (the one cyclegan.py line 127 makes): the pattern is
\* never applied to the epoch.
FileName_Unformatted(s, c, e) ==
    [dir |-> "output", stem |-> "dcgan_%04i", num |-> <<>>, ext |-> ".png"]

\* The path out.save is given.
FileName(s, c, e) ==
    IF s = "dcgan"
    THEN [dir |-> c.otp_path, stem |-> "dcgan_", num |-> Fmt04(e), ext |-> ".png"]
    ELSE [dir |-> "output", stem |-> "dcgan_%04i", num |-> <<>>, ext |-> ".png"]

\* Image.new(mode, (2 + n[0]*s0, 2 + n[1]*s1)) with n = (5, 5)
GridSize(c) == <<2 + 5 * (img_shape(c)[1] + 2), 2 + 5 * (img_shape(c)[2] + 2)>>

(***************************************************************************)
(* train: the statements of the loop body, in program order.               *)
(***************************************************************************)
\* A plausible slip: the generator is trained before the discriminator.
TrainOrder_GenFirst(s) ==
    <<"sample_real", "predict", "train_comb", "train_real", "train_fake", "save">>

TrainOrder(s) ==
    IF s = "dcgan"
    THEN <<"sample_real", "predict", "train_real", "train_fake", "train_comb", "save">>
    ELSE <<"sample_real", "train_real", "latent", "predict", "train_fake",
           "train_comb", "save">>

\* The attributes of self a statement reads.
Reads(s, stmt) ==
    IF s = "dcgan"
    THEN CASE stmt = "predict"    -> {"gen", "nz"}
           [] stmt = "train_real" -> {"discr"}
           [] stmt = "train_fake" -> {"discr"}
           [] stmt = "train_comb" -> {"nz", "comb"}
           [] stmt = "save"       -> {"gen", "nz", "img_shape", "otp_path"}
           [] OTHER               -> {}
    ELSE CASE stmt = "train_real" -> {"discr1"}
           [] stmt = "latent"     -> {"nz"}
           [] stmt = "predict"    -> {"gen1"}
           [] stmt = "train_fake" -> {"discr1"}
           [] stmt = "train_comb" -> {"nz", "comb"}
           [] stmt = "save"       -> {"gen", "nz", "img_shape"}
           [] OTHER               -> {}

Defined(s, stmt) == Reads(s, stmt) \subseteq Attributes(s)

After(s, stmt) ==
    LET o == TrainOrder(s)
        i == CHOOSE j \in 1..Len(o) : o[j] = stmt
    IN  IF i < Len(o) THEN o[i + 1] ELSE "for"

\* The discriminator and the generator train() works with.
Discr(s) == IF s = "dcgan" THEN "discr" ELSE "discr1"
Gen(s) == IF s = "dcgan" THEN "gen" ELSE "gen1"

\* The shape one sample must have to enter model m.
InputShape(s, c, m) ==
    IF IsDiscriminator(m) THEN img_shape(c)
    ELSE IF s = "dcgan" THEN <<c.nz>> ELSE img_shape(c)

\* The shape of what model m puts out for one sample.
OutputShape(s, m) ==
    IF m = "comb" THEN (IF s = "dcgan" THEN nets["discr"].shape ELSE nets["gen2"].shape)
    ELSE nets[m].shape

\* Keras checks a batch against the model before it runs it.
Fits(s, c, m, xs) == \A i \in 1..Len(xs) : xs[i].shape = InputShape(s, c, m)
FitsTargets(s, m) == OutputShape(s, m) = <<1>>

\* numpy: normal(0, 1, (n, nz)), ones((n, 1)), zeros((n, 1))
normal(n, nz) == [i \in 1..n |-> Sample("latent", 0, <<nz>>, "(-inf,inf)")]
ones(n) == [i \in 1..n |-> 1]
zeros(n) == [i \in 1..n |-> 0]

\* One optimizer step of compiled model m.
Step(m) == [n \in NetNames |-> IF n \in compiled[m] THEN weights[n] + 1 ELSE weights[n]]

\* What the log keeps of a batch: its length, and the kinds, shapes and
\* value ranges of its samples.
Batch(xs) ==
    [n      |-> Len(xs),
     kinds  |-> {xs[i].kind : i \in 1..Len(xs)},
     shapes |-> {xs[i].shape : i \in 1..Len(xs)},
     ranges |-> {xs[i].range : i \in 1..Len(xs)}]

Call(fn, m, xs, ys) ==
    [fn |-> fn, model |-> m, x |-> Batch(xs), y |-> ys, epoch |-> epoch]

\* x_train = self.load_images()
LoadImages ==
    /\ pc = "load"
    /\ LET r == load_images(script, files, cfg)
       IN  /\ x_train' = r.xs
           /\ printed' = printed \o r.out
    /\ pc' = "for"
    /\ UNCHANGED <<script, cfg, netVars, pix, files, args, epoch, real_imgs, fake_imgs,
                   z, compiled, weights, log, written>>

\* for epoch in range(epochs):
For ==
    /\ pc = "for"
    /\ pc' = IF epoch < args.epochs THEN TrainOrder(script)[1] ELSE "return"
    /\ UNCHANGED <<script, cfg, netVars, pix, files, args, epoch, x_train, real_imgs,
                   fake_imgs, z, compiled, weights, log, printed, written>>

\* real_imgs = x_train[randint(0, x_train.shape[0], half_batch)]
\* randint raises ValueError when the range 0..x_train.shape[0]-1 is empty.
SampleReal ==
    /\ pc = "sample_real"
    /\ IF Len(x_train) = 0
       THEN /\ pc' = "ValueError"
            /\ real_imgs' = real_imgs
       ELSE \E idx \in [1..args.half_batch -> 1..Len(x_train)] :
               /\ real_imgs' = [i \in 1..args.half_batch |-> x_train[idx[i]]]
               /\ pc' = After(script, "sample_real")
    /\ UNCHANGED <<script, cfg, netVars, pix, files, args, epoch, x_train, fake_imgs,
                   z, compiled, weights, log, printed, written>>

\* z = normal(0, 1, (half_batch, self.nz))              (cyclegan.py only)
Latent ==
    /\ pc = "latent"
    /\ IF ~Defined(script, "latent")
       THEN /\ pc' = "AttributeError"
            /\ z' = z
       ELSE /\ z' = normal(args.half_batch, cfg.nz)
            /\ pc' = After(script, "latent")
    /\ UNCHANGED <<script, cfg, netVars, pix, files, args, epoch, x_train, real_imgs,
                   fake_imgs, compiled, weights, log, printed, written>>

\* fake_imgs = self.gen.predict(normal(0, 1, (half_batch, self.nz)))
\* (cyclegan.py: fake = self.gen1.predict(z))
Predict ==
    /\ pc = "predict"
    /\ IF ~Defined(script, "predict")
       THEN /\ pc' = "AttributeError"
            /\ UNCHANGED <<fake_imgs, log>>
       ELSE LET zs == IF script = "dcgan" THEN normal(args.half_batch, cfg.nz) ELSE z
                g  == Gen(script)
            IN  IF ~Fits(script, cfg, g, zs)
                THEN /\ pc' = "ValueError"
                     /\ UNCHANGED <<fake_imgs, log>>
                ELSE /\ fake_imgs' = [i \in 1..Len(zs) |->
                                        Sample("generated", 0, nets[g].shape, nets[g].range)]
                     /\ log' = Append(log, Call("predict", g, zs, <<>>))
                     /\ pc' = After(script, "predict")
    /\ UNCHANGED <<script, cfg, netVars, pix, files, args, epoch, x_train, real_imgs,
                   z, compiled, weights, printed, written>>

\* model.train_on_batch(xs, ys) as a statement of train(): the next values
\* of pc, weights and log.
TrainOnBatch(stmt, m, xs, ys) ==
    IF ~Defined(script, stmt)
    THEN /\ pc' = "AttributeError"
         /\ UNCHANGED <<weights, log>>
    ELSE IF ~(Fits(script, cfg, m, xs) /\ FitsTargets(script, m))
    THEN /\ pc' = "ValueError"
         /\ UNCHANGED <<weights, log>>
    ELSE /\ weights' = Step(m)
         /\ log' = Append(log, Call("train_on_batch", m, xs, ys))
         /\ pc' = After(script, stmt)

\* A plausible slip: the real batch is labelled 0.
TrainReal_Zeros ==
    /\ pc = "train_real"
    /\ TrainOnBatch("train_real", Discr(script), real_imgs, zeros(args.half_batch))
    /\ UNCHANGED <<script, cfg, netVars, pix, files, args, epoch, x_train, real_imgs,
                   fake_imgs, z, compiled, printed, written>>

\* d_loss_r = self.discr.train_on_batch(real_imgs, ones((half_batch, 1)))
TrainReal ==
    /\ pc = "train_real"
    /\ TrainOnBatch("train_real", Discr(script), real_imgs, ones(args.half_batch))
    /\ UNCHANGED <<script, cfg, netVars, pix, files, args, epoch, x_train, real_imgs,
                   fake_imgs, z, compiled, printed, written>>

\* d_loss_f = self.discr.train_on_batch(fake_imgs, zeros((half_batch, 1)))
TrainFake ==
    /\ pc = "train_fake"
    /\ TrainOnBatch("train_fake", Discr(script), fake_imgs, zeros(args.half_batch))
    /\ UNCHANGED <<script, cfg, netVars, pix, files, args, epoch, x_train, real_imgs,
                   fake_imgs, z, compiled, printed, written>>

\* z = normal(0, 1, (2 * half_batch, self.nz))
\* g_loss = self.comb.train_on_batch(z, ones((2 * half_batch, 1)))
\* print('[E %04i] ...' % (epoch, ...))
TrainComb ==
    /\ pc = "train_comb"
    /\ IF ~Defined(script, "train_comb")
       THEN /\ pc' = "AttributeError"
            /\ UNCHANGED <<z, weights, log, printed>>
       ELSE /\ z' = normal(2 * args.half_batch, cfg.nz)
            /\ TrainOnBatch("train_comb", "comb", z', ones(2 * args.half_batch))
            /\ printed' = IF pc' = "ValueError" THEN printed
                          ELSE Append(printed, [msg |-> "E", file |-> 0, shape |-> <<>>,
                                                epoch |-> epoch])
    /\ UNCHANGED <<script, cfg, netVars, pix, files, args, epoch, x_train, real_imgs,
                   fake_imgs, compiled, written>>

\* if epoch % save_interval == 0: self.save_images(epoch)
\* and the end of the loop body: range() yields the next epoch.
SaveImages ==
    /\ pc = "save"
    /\ IF epoch % args.save_interval = 0
       THEN IF ~Defined(script, "save")
            THEN /\ pc' = "AttributeError"
                 /\ UNCHANGED <<epoch, log, written>>
            ELSE /\ written' = Append(written, [name |-> FileName(script, cfg, epoch),
                                                epoch |-> epoch, size |-> GridSize(cfg)])
                 /\ log' = Append(log, Call("save_images", Gen(script), <<>>, <<>>))
                 /\ epoch' = epoch + 1
                 /\ pc' = After(script, "save")
       ELSE /\ epoch' = epoch + 1
            /\ pc' = After(script, "save")
            /\ UNCHANGED <<log, written>>
    /\ UNCHANGED <<script, cfg, netVars, pix, files, args, x_train, real_imgs,
                   fake_imgs, z, compiled, weights, printed>>

\* The shapes array(Image.open(f)) can have: the configured one, a greyscale
\* image (two axes), an image with an alpha channel, an image of another width.
FileShapes(c) ==
    {img_shape(c), <<c.size, c.size>>, <<c.size, c.size, 4>>, <<c.size, c.size + 1, c.nc>>}

SeqsUpTo(S, n) == UNION {[1..k -> S] : k \in 0..n}

Init ==
    /\ script \in Scripts
    /\ cfg = CONFIG(script)
    /\ nets = Built(script, cfg)
    /\ phase = "built"
    /\ layer_i = 0
    /\ out_shape = nets[BuildOrder(script)[Len(BuildOrder(script))]].shape
    /\ out_range = "(-inf,inf)"
    /\ files \in SeqsUpTo([shape : FileShapes(cfg)], MaxFiles)
    /\ args \in [epochs : 0..MaxEpochs, half_batch : 1..MaxHalfBatch,
                 save_interval : 1..MaxInterval]
    /\ pc = "load"
    /\ epoch = 0
    /\ x_train = <<>>
    /\ real_imgs = <<>>
    /\ fake_imgs = <<>>
    /\ z = <<>>
    /\ compiled = KerasInit(script).compiled
    /\ weights = [n \in NetNames |-> 0]
    /\ log = <<>>
    /\ printed = <<>>
    /\ written = <<>>
    /\ IdlePix

Next ==
    \/ LoadImages
    \/ For
    \/ SampleReal
    \/ Latent
    \/ Predict
    \/ TrainReal
    \/ TrainFake
    \/ TrainComb
    \/ SaveImages

Spec == Init /\ [][Next]_vars

(***************************************************************************)
(* SpecPixel: one pixel through load_images (line 87), one value of the    *)
(* generator through save_images (line 95).  Both lines compute in         *)
(* float32.  A float32 is kept as <<m, e>>, the number m * 2^e with        *)
(* 2^23 <= |m| < 2^24, zero as <<0, 0>>, so that equal numbers are equal   *)
(* pairs; every operation rounds as IEEE 754 does (to nearest, ties to     *)
(* even).                                                                  *)
(***************************************************************************)
RECURSIVE Pow2(_)
Pow2(n) == IF n <= 0 THEN 1 ELSE 2 * Pow2(n - 1)

RECURSIVE BitLen(_)
BitLen(n) == IF n = 0 THEN 0 ELSE 1 + BitLen(n \div 2)

Abs(n) == IF n < 0 THEN -n ELSE n
Sgn(n) == IF n < 0 THEN -1 ELSE 1

\* q0 + rem/unit rounded to the nearest integer, a tie to the even one.
NearestEven(q0, rem, unit) ==
    IF 2 * rem > unit \/ (2 * rem = unit /\ q0 % 2 = 1) THEN q0 + 1 ELSE q0

\* The pair of m * 2^e, for |m| <= 2^24: a mantissa that rounding carried to
\* 2^24 moves up one exponent, a short one moves down.
RECURSIVE Renorm(_, _)
Renorm(m, e) ==
    IF m = 0 THEN <<0, 0>>
    ELSE IF Abs(m) >= Pow2(24) THEN <<Sgn(m) * Pow2(23), e + 1>>
    ELSE IF Abs(m) < Pow2(23) THEN Renorm(2 * m, e - 1)
    ELSE <<m, e>>

\* float32 of (hi * 2^12 + lo) * 2^e, for 0 <= lo < 2^12 and 0 <= hi < 2^24.
F32Wide(hi, lo, e) ==
    LET s == IF hi >= Pow2(12) THEN BitLen(hi) - 12 ELSE 0
    IN  IF s = 0 THEN Renorm(hi * Pow2(12) + lo, e)
        ELSE Renorm(NearestEven(hi * Pow2(12 - s) + lo \div Pow2(s),
                                lo % Pow2(s), Pow2(s)), e + s)

\* The long division behind F32Quotient: q, r are quotient and remainder of
\* n * 2^(-e) by d; it stops when q has 24 bits.
RECURSIVE LongDiv(_, _, _, _)
LongDiv(q, r, d, e) ==
    IF q >= Pow2(23) THEN Renorm(NearestEven(q, r, d), e)
    ELSE LongDiv(2 * q + (IF 2 * r >= d THEN 1 ELSE 0),
                 (IF 2 * r >= d THEN 2 * r - d ELSE 2 * r), d, e - 1)

\* float32 of n / d, for integers |n| < 2^23 and 0 < d < 2^23.
F32Quotient(n, d) ==
    IF n = 0 THEN <<0, 0>>
    ELSE LET f == LongDiv(Abs(n) \div d, Abs(n) % d, d, 0)
         IN  <<Sgn(n) * f[1], f[2]>>

\* float32 of (c / 2) * x, for a float32 x and an integer 0 < c < 2^8.
F32MulHalf(x, c) ==
    LET a   == Abs(x[1]) \div Pow2(12)
        b   == Abs(x[1]) % Pow2(12)
        f   == F32Wide(c * a + (c * b) \div Pow2(12), (c * b) % Pow2(12), x[2] - 1)
    IN  <<Sgn(x[1]) * f[1], f[2]>>

\* float32 of y + c / 2, for an integer 2^7 <= c < 2^8 and a float32 y
\* with |y| <= c / 2.
F32AddHalf(y, c) ==
    LET m == y[1]
        e == y[2]
    IN  IF m = 0 THEN Renorm(c, -1)
        ELSE IF e <= -25
        THEN \* |y| < 1/2: the sum is in [64, 128), where floats are 2^-17 apart
             LET sh == -e - 17
                 q  == IF sh > 30 THEN 0
                       ELSE NearestEven(Abs(m) \div Pow2(sh), Abs(m) % Pow2(sh), Pow2(sh))
             IN  <<c * Pow2(16) + Sgn(m) * q, -17>>
        ELSE \* the exact sum in units of 2^e, as hi * 2^12 + lo
             LET hi0 == c * Pow2(-1 - e - 12) + Sgn(m) * (Abs(m) \div Pow2(12))
                 lo0 == Sgn(m) * (Abs(m) % Pow2(12))
                 hi  == IF lo0 < 0 THEN hi0 - 1 ELSE hi0
                 lo  == IF lo0 < 0 THEN lo0 + Pow2(12) ELSE lo0
             IN  F32Wide(hi, lo, e)

\* astype(uint8) of a float32: the fraction is cut off towards zero.  numpy
\* defines the cast only for results in 0..255, which the round-trip
\* property below establishes for every value that reaches it.
Truncate(f) ==
    IF f[2] >= 0 THEN f[1] * Pow2(f[2])
    ELSE IF -f[2] > 30 THEN 0
    ELSE Sgn(f[1]) * (Abs(f[1]) \div Pow2(-f[2]))

\* (img.astype(float32) - 127.5) / 127.5: the difference (2p - 255) / 2 is
\* exact, the quotient (2p - 255) / 255 is rounded to float32.
LoadNormalize(p) == F32Quotient(2 * p - 255, 255)

\* A plausible slip: integer constants, 127 * x + 127.
SaveDenormalize_Int(x) == Truncate(F32AddHalf(F32MulHalf(x, 254), 254))

\* (127.5 * imgs + 127.5).astype(uint8): the product is rounded to float32,
\* then the sum is, then the fraction is cut off.
SaveDenormalize(x) == Truncate(F32AddHalf(F32MulHalf(x, 255), 255))

\* x is a value of [-1, 1].
InUnitRange(x) == x[1] = 0 \/ x[2] < -23 \/ (x[2] = -23 /\ Abs(x[1]) = Pow2(23))

\* The values the generator is taken to put out for a pixel whose training
\* value is x: x itself, the float32 values up to MaxUlps steps of the
\* mantissa away from it, and -1, 0, 1 and the two float32 values next to
\* -1 and 1 inside the range.
Generated(x) ==
    {g \in {Renorm(x[1] + k, x[2]) : k \in -MaxUlps..MaxUlps} : InUnitRange(g)}
      \cup {Renorm(-1, 0), <<0, 0>>, Renorm(1, 0),
            <<Pow2(24) - 1, -24>>, <<1 - Pow2(24), -24>>}

\* xs.append((img.astype(float32) - 127.5) / 127.5), one 8-bit pixel
PixLoad ==
    /\ pix.stage = "raw"
    /\ pix' = [pix EXCEPT !.stage = "normalized", !.x = LoadNormalize(pix.p)]
    /\ UNCHANGED <<script, cfg, netVars, trainVars>>

\* imgs = self.gen.predict(...), one value of the tanh output
PixPredict ==
    /\ pix.stage = "normalized"
    /\ \E g \in Generated(pix.x) : pix' = [pix EXCEPT !.stage = "generated", !.g = g]
    /\ UNCHANGED <<script, cfg, netVars, trainVars>>

\* imgs = (127.5 * imgs + 127.5).astype(uint8), one value
PixSave ==
    /\ pix.stage = "generated"
    /\ pix' = [pix EXCEPT !.stage = "saved", !.out = SaveDenormalize(pix.g)]
    /\ UNCHANGED <<script, cfg, netVars, trainVars>>

\* An 8-bit pixel of an input file of the DCGAN script.
InitPixel ==
    /\ script = "dcgan"
    /\ cfg = CONFIG(script)
    /\ nets = Built(script, cfg)
    /\ phase = "built"
    /\ layer_i = 0
    /\ out_shape = nets["gen"].shape
    /\ out_range = "(-inf,inf)"
    /\ IdleTrain
    /\ \E p \in 0..255 :
          pix = [stage |-> "raw", p |-> p, x |-> <<0, 0>>, g |-> <<0, 0>>, out |-> 0]

NextPixel == PixLoad \/ PixPredict \/ PixSave

SpecPixel == InitPixel /\ [][NextPixel]_vars

(***************************************************************************)
(* Properties.                                                             *)
(***************************************************************************)
IsTrain(c) == c.fn = "train_on_batch"
IsDiscrStep(c) == IsTrain(c) /\ c.model = "discr"
IsCombStep(c) == IsTrain(c) /\ c.model = "comb"

\* The positions of the files whose shape is the configured one.
Matching == {i \in 1..Len(files) : files[i].shape = img_shape(cfg)}

\* The bad-shape lines load_images printed.
BadShapeLines == SelectSeq(printed, LAMBDA l : l.msg = "bad shape")

\* C1: once load_images has returned (in either script), x_train holds one
\* entry for each file whose shape equals img_shape and for no other file,
\* and the entries are in the order of the glob result.
C1_LoadExactlyMatching ==
    pc # "load" =>
        /\ Len(x_train) = Cardinality(Matching)
        /\ \A k \in 1..Len(x_train) :
              /\ x_train[k].src \in Matching
              /\ x_train[k].shape = img_shape(cfg)
        /\ \A k \in 1..(Len(x_train) - 1) : x_train[k].src < x_train[k + 1].src

C1_Witness ==
    /\ pc # "load"
    /\ Len(files) = 3
    /\ files[1].shape = img_shape(cfg)
    /\ files[2].shape # img_shape(cfg)
    /\ files[3].shape = img_shape(cfg)
    /\ Len(x_train) = 2

\* C2: with at least one input file of a mismatching shape, be it some of
\* the files or all of them, DCGAN.train prints one line per mismatching
\* file, never stops with an error, and returns only after `epochs`
\* iterations.
C2_MismatchNeverHalts ==
    (script = "dcgan" /\ pc # "load" /\ Cardinality(Matching) < Len(files)) =>
        /\ Len(BadShapeLines) = Len(files) - Cardinality(Matching)
        /\ pc \notin {"ValueError", "AttributeError"}
        /\ (pc = "return" => epoch = args.epochs)

\* C3: in DCGAN.train, within one iteration no generator update precedes a
\* discriminator update, every generator update precedes the discriminator
\* updates of later iterations, and between two generator updates there is
\* a discriminator update.
C3_Alternation ==
    script = "dcgan" =>
        \A i \in 1..Len(log), j \in 1..Len(log) :
            /\ (i < j /\ IsCombStep(log[i]) /\ IsDiscrStep(log[j]))
                  => log[i].epoch < log[j].epoch
            /\ (IsCombStep(log[i]) /\ IsDiscrStep(log[j]) /\ log[i].epoch < log[j].epoch)
                  => i < j
            /\ (i < j /\ IsCombStep(log[i]) /\ IsCombStep(log[j]))
                  => \E m \in (i + 1)..(j - 1) : IsDiscrStep(log[m])

C3_Witness ==
    /\ script = "dcgan"
    /\ Len(SelectSeq(log, IsCombStep)) >= 2
    /\ Len(SelectSeq(log, IsDiscrStep)) >= 4

\* The optimizer steps of iteration e, in the order taken.
StepsOf(e) == SelectSeq(log, LAMBDA c : IsTrain(c) /\ c.epoch = e)

AllLabels(ys, v) == \A i \in 1..Len(ys) : ys[i] = v

\* C4 as stated: every finished iteration of DCGAN.train has taken exactly
\* one optimizer step on the discriminator and exactly one on the generator.
C4_OneDiscriminatorStep ==
    script = "dcgan" =>
        \A e \in 0..(epoch - 1) :
            /\ Len(SelectSeq(StepsOf(e), IsDiscrStep)) = 1
            /\ Len(SelectSeq(StepsOf(e), IsCombStep)) = 1

\* C4 amended: every finished iteration of DCGAN.train has taken exactly
\* three optimizer steps, in this order: one on the discriminator with
\* half_batch images of x_train all labelled 1, one on the discriminator
\* with half_batch generated images all labelled 0, and one on the
\* generator (through comb) with 2 * half_batch latent vectors all labelled 1.
C4_TwoDiscriminatorSteps ==
    script = "dcgan" =>
        \A e \in 0..(epoch - 1) :
            LET st == StepsOf(e)
            IN  /\ Len(st) = 3
                /\ IsDiscrStep(st[1])
                /\ st[1].x.n = args.half_batch /\ st[1].x.kinds = {"real"}
                /\ Len(st[1].y) = args.half_batch /\ AllLabels(st[1].y, 1)
                /\ IsDiscrStep(st[2])
                /\ st[2].x.n = args.half_batch /\ st[2].x.kinds = {"generated"}
                /\ Len(st[2].y) = args.half_batch /\ AllLabels(st[2].y, 0)
                /\ IsCombStep(st[3])
                /\ st[3].x.n = 2 * args.half_batch /\ st[3].x.kinds = {"latent"}
                /\ Len(st[3].y) = 2 * args.half_batch /\ AllLabels(st[3].y, 1)

C4_Witness ==
    /\ script = "dcgan"
    /\ epoch = 2
    /\ args.half_batch = 2
    /\ Len(x_train) >= 2

\* The generators and the discriminators __init__ has built.
BuiltGenerators == {n \in NetNames : IsGenerator(n) /\ InBuildOrder(script, n)}
BuiltDiscriminators == {n \in NetNames : IsDiscriminator(n) /\ InBuildOrder(script, n)}

\* C5: whenever every network of the script could be built, each network
\* build_generator returned puts out tensors of shape (size, size, nc).
C5_GeneratorShape ==
    phase = "built" => \A n \in BuiltGenerators : nets[n].shape = img_shape(cfg)

\* C6: whenever every network of the script could be built, each network
\* build_discriminator returned puts out one value per image, and the value
\* is in [0, 1].
C6_DiscriminatorScalar ==
    phase = "built" =>
        \A n \in BuiltDiscriminators : nets[n].shape = <<1>> /\ nets[n].range = "[0,1]"

\* The round trip in exact arithmetic: truncate(127.5 * ((p - 127.5) / 127.5)
\* + 127.5), computed as (255 (2p - 255) + 255 * 255) / (2 * 255).
ExactRoundTrip(p) == (255 * (2 * p - 255) + 255 * 255) \div (2 * 255)

\* C7: the saving map sends -1 to 0 and 1 to 255; an 8-bit pixel p that the
\* loading map turned into x is p again when the saving map is applied to
\* x, in the float32 arithmetic of the code as in exact arithmetic; and the
\* saving map never leaves 0..255 on a value of [-1, 1].
C7_PixelRoundTrip ==
    pix.stage = "saved" =>
        /\ pix.g = pix.x => (pix.out = pix.p /\ ExactRoundTrip(pix.p) = pix.p)
        /\ pix.out \in 0..255
        /\ pix.g = Renorm(-1, 0) => pix.out = 0
        /\ pix.g = Renorm(1, 0) => pix.out = 255

C7_Witness ==
    /\ pix.stage = "saved"
    /\ pix.p = 32
    /\ pix.x = <<-12566464, -24>>
    /\ pix.g = pix.x
    /\ pix.out = 32

\* C8: in DCGAN.train the iterations that have called save_images are
\* exactly the finished iterations whose epoch is a multiple of
\* save_interval, once each; the call comes right after the generator
\* update of its own iteration; and two files written have the same name
\* only if they were written at the same epoch.
C8_PeriodicSaves ==
    script = "dcgan" =>
        /\ {written[i].epoch : i \in 1..Len(written)}
              = {e \in 0..(epoch - 1) : e % args.save_interval = 0}
        /\ \A i \in 1..Len(written), j \in 1..Len(written) :
              /\ (written[i].epoch = written[j].epoch) => i = j
              /\ (written[i].name = written[j].name) => i = j
        /\ \A i \in 1..Len(log) :
              log[i].fn = "save_images" =>
                 /\ i > 1
                 /\ IsCombStep(log[i - 1])
                 /\ log[i - 1].epoch = log[i].epoch
                 /\ \E k \in 1..Len(written) : written[k].epoch = log[i].epoch
        /\ Len(SelectSeq(log, LAMBDA c : c.fn = "save_images")) = Len(written)

C8_Witness ==
    /\ script = "dcgan"
    /\ pc = "return"
    /\ args.save_interval = 2
    /\ epoch = 3
    /\ Len(written) = 2

\* C9: in DCGAN a step of comb.train_on_batch changes the generator's
\* weights and leaves the discriminator's as they were, and a step of
\* discr.train_on_batch changes the discriminator's weights and leaves the
\* generator's as they were, in every iteration.
C9_Freezing ==
    [][script = "dcgan" =>
          /\ (pc = "train_comb" /\ pc' = After(script, "train_comb"))
                => (weights'["discr"] = weights["discr"] /\ weights'["gen"] # weights["gen"])
          /\ (pc \in {"train_real", "train_fake"} /\ pc' = After(script, pc))
                => (weights'["gen"] = weights["gen"] /\ weights'["discr"] # weights["discr"])
          /\ (pc \notin {"train_real", "train_fake", "train_comb"})
                => weights' = weights]_vars

C9_Witness ==
    /\ script = "dcgan"
    /\ epoch >= 2
    /\ weights["gen"] = 2
    /\ weights["discr"] = 4

\* C10: given at least one input image, all of the configured shape,
\* CYCLEGAN.train raises no error, reads no attribute __init__ left
\* undefined, and returns only after `epochs` iterations.
C10_CycleGanTrains ==
    (script = "cyclegan" /\ Len(files) >= 1 /\ Cardinality(Matching) = Len(files)) =>
        /\ pc \notin {"AttributeError", "ValueError"}
        /\ (pc = "return" => epoch = args.epochs)

=============================================================================
